---- MODULE Spec2Model ----
(***************************************************************************)
(* Model of the per-connection operation scheduler of src/database.cc:     *)
(* Database::Schedule / Database::Process, the open / close state machine  *)
(* (EIO_BeginOpen .. EIO_AfterClose) and the reference-counted lifecycle   *)
(* (Unref / Destruct / EIO_Destruct / EIO_AfterDestruct).                  *)
(*                                                                         *)
(* The event loop is single threaded: every handler is one atomic action.  *)
(* The worker-thread halves of eio_custom (EIO_Open, EIO_Close,            *)
(* EIO_Destruct) are separate actions that interleave with the handlers.   *)
(* Shared (non-exclusive) requests are not issued by database.cc itself;   *)
(* their work function is modelled after section 4 of the specification.   *)
(***************************************************************************)
EXTENDS Integers, Sequences, FiniteSets, TLC

\* Number of requests (close() calls and shared requests) a run may submit.
MaxReq == 3
\* Number of requests the open's completion action / "open" listeners may
\* submit re-entrantly, between db->open = true and Process(db).
MaxReentrant == 1

VARIABLES
    open,        \* db->open
    locked,      \* db->locked
    pending,     \* db->pending
    queue,       \* db->queue : sequence of Call records
    handle,      \* db->handle # NULL
    refs,        \* ObjectWrap::refs_
    weak,        \* handle_.IsWeak()
    evrefs,      \* ev_ref / ev_unref balance of the default loop
    eio,         \* requests handed to eio_custom and not yet completed
    jsref,       \* the script still holds a reference to the object
    destroyed,   \* delete db has run
    nextId,      \* id of the next request (ids follow submission order)
    dispatched,  \* history: ids whose work callback has been run, in order
    delivered,   \* history: what each request's completion received
    asserts,     \* history: assertions that failed
    closeLog,    \* history: sqlite3_close calls that reached the engine
    events,      \* history: notifications emitted, by name
    openResult,  \* history: "pending", "ok" or "err"
    closeDone,   \* history: a close has completed successfully
    kinds,       \* history: the kind of each submitted request
    openedAt,    \* history: nextId when EIO_AfterOpen began (0 before)
    trace,       \* history: what the handler that ran last did, in order
    last         \* history: the handler that ran last

vars == <<open, locked, pending, queue, handle, refs, weak, evrefs, eio, jsref,
          destroyed, nextId, dispatched, delivered, asserts, closeLog, events,
          openResult, closeDone, kinds, openedAt, trace, last>>

Ids == 0 .. (MaxReq + 1)
OpenId == 0

\* The connection as one record, so that handlers compose as functions.
Cur ==
    [open |-> open, locked |-> locked, pending |-> pending, queue |-> queue,
     handle |-> handle, refs |-> refs, weak |-> weak, evrefs |-> evrefs,
     eio |-> eio, jsref |-> jsref, destroyed |-> destroyed, nextId |-> nextId,
     dispatched |-> dispatched, delivered |-> delivered, asserts |-> asserts,
     closeLog |-> closeLog, events |-> events, openResult |-> openResult,
     closeDone |-> closeDone, kinds |-> kinds, openedAt |-> openedAt,
     trace |-> <<>>]

Apply(s) ==
    /\ open' = s.open
    /\ locked' = s.locked
    /\ pending' = s.pending
    /\ queue' = s.queue
    /\ handle' = s.handle
    /\ refs' = s.refs
    /\ weak' = s.weak
    /\ evrefs' = s.evrefs
    /\ eio' = s.eio
    /\ jsref' = s.jsref
    /\ destroyed' = s.destroyed
    /\ nextId' = s.nextId
    /\ dispatched' = s.dispatched
    /\ delivered' = s.delivered
    /\ asserts' = s.asserts
    /\ closeLog' = s.closeLog
    /\ events' = s.events
    /\ openResult' = s.openResult
    /\ closeDone' = s.closeDone
    /\ kinds' = s.kinds
    /\ openedAt' = s.openedAt
    /\ trace' = s.trace

Req(kind, id, cb) == [kind |-> kind, id |-> id, cb |-> cb, status |-> "req"]

Log(s, e) == [s EXCEPT !.trace = Append(@, e)]

Emit(s, name) == Log([s EXCEPT !.events[name] = @ + 1], name)

Deliver(s, id, what) ==
    Log([s EXCEPT !.delivered[id] = what],
        IF what \in {"cb_null", "cb_engine", "cb_misuse"}
        THEN "callback" ELSE "error")

\* db->Ref()
Ref(s) == Log([s EXCEPT !.refs = @ + 1, !.weak = FALSE], "Ref")

\* ev_ref(EV_DEFAULT_UC)
EvRef(s) == Log([s EXCEPT !.evrefs = @ + 1], "ev_ref")

\* ev_unref(EV_DEFAULT_UC)
EvUnref(s) == Log([s EXCEPT !.evrefs = @ - 1], "ev_unref")

Check(s, cond, name) ==
    IF cond THEN s ELSE [s EXCEPT !.asserts = @ \cup {name}]

----------------------------------------------------------------------------
\* Mutant: the handle is made weak whatever the count.
Unref_AlwaysWeak(s) ==
    LET a == Check(Check(s, ~s.weak, "Unref.IsWeak"), s.refs > 0, "Unref.refs")
    IN  Log([a EXCEPT !.refs = s.refs - 1, !.weak = TRUE], "Unref")

\* Database::Unref
Unref(s) ==
    LET a == Check(Check(s, ~s.weak, "Unref.IsWeak"), s.refs > 0, "Unref.refs")
    IN  Log([a EXCEPT !.refs = s.refs - 1, !.weak = (s.refs - 1 = 0) \/ s.weak],
            "Unref")

\* Database::EIO_BeginClose
EIO_BeginClose(s, call) ==
    LET a == Check(Check(Check(s, s.open, "BeginClose.open"),
                         ~s.locked, "BeginClose.locked"),
                   s.pending = 0, "BeginClose.pending")
    IN  Log([a EXCEPT !.locked = TRUE,
                      !.eio = @ \cup {Req("close", call.id, call.cb)}],
            "eio_close")

\* Work function of a shared request (section 4.3 of the specification):
\* the dispatch takes a reference, marks the loop and counts as pending.
BeginShared(s, call) ==
    Log([EvRef(Ref(s)) EXCEPT !.pending = @ + 1,
                              !.eio = @ \cup {Req("shared", call.id, call.cb)}],
        "eio_shared")

\* call->callback(call->baton)
Run(s, call) ==
    LET t == [s EXCEPT !.dispatched = Append(@, call.id)]
    IN  IF call.kind = "close" THEN EIO_BeginClose(t, call)
        ELSE BeginShared(t, call)

\* The while loop of Database::Process
RECURSIVE ProcessLoop(_)
ProcessLoop(s) ==
    IF s.open /\ ~s.locked /\ s.queue # <<>>
    THEN LET call == Head(s.queue)
         IN  IF call.exclusive /\ s.pending > 0
             THEN s
             ELSE ProcessLoop([Run(Log(s, "drain"), call)
                                 EXCEPT !.queue = Tail(@)])
    ELSE s

\* Database::Process
Process(s) ==
    IF ~s.open /\ s.locked /\ s.queue # <<>>
    THEN Emit(s, "error")
    ELSE ProcessLoop(s)

\* Mutant: an exclusive request does not wait for pending operations.
MustQueue_NoPending(o, l, exclusive, p) == ~o \/ l

\* Mutant: a request does not wait for the lock.
MustQueue_NoLock(o, l, exclusive, p) == ~o \/ (exclusive /\ p > 0)

\* Mutant: a request does not wait for the open to complete.
MustQueue_NoOpen(o, l, exclusive, p) == l \/ (exclusive /\ p > 0)

\* The queueing condition of Database::Schedule
MustQueue(o, l, exclusive, p) == ~o \/ l \/ (exclusive /\ p > 0)

\* Mutant: the closed connection is not told apart from the unopened one.
Schedule_NoClosedCheck(s, call) ==
    IF MustQueue(s.open, s.locked, call.exclusive, s.pending)
    THEN Log([s EXCEPT !.queue = Append(@, call)], "push")
    ELSE Run(s, call)

\* Database::Schedule
Schedule(s, call) ==
    IF ~s.open /\ s.locked
    THEN Deliver(s, call.id, IF call.cb THEN "cb_misuse" ELSE "emit_misuse")
    ELSE IF MustQueue(s.open, s.locked, call.exclusive, s.pending)
         THEN Log([s EXCEPT !.queue = Append(@, call)], "push")
         ELSE Run(s, call)

Call(kind, id, cb) ==
    [kind |-> kind, id |-> id, cb |-> cb, exclusive |-> (kind = "close")]

\* Mutant: close() takes no reference on the object.
Close_NoRef(s, cb) ==
    LET t == [EvRef(s) EXCEPT !.nextId = @ + 1, !.kinds[s.nextId] = "close"]
    IN  Schedule(t, Call("close", s.nextId, cb))

\* Database::Close
Close(s, cb) ==
    LET t == [EvRef(Ref(s)) EXCEPT !.nextId = @ + 1,
                                   !.kinds[s.nextId] = "close"]
    IN  Schedule(t, Call("close", s.nextId, cb))

\* Submission of a shared request: Schedule(db, work, baton) with the
\* default exclusive = false.
Shared(s, cb) ==
    Schedule([s EXCEPT !.nextId = @ + 1, !.kinds[s.nextId] = "shared"],
             Call("shared", s.nextId, cb))

Submit(s, r) == IF r.kind = "close" THEN Close(s, r.cb) ELSE Shared(s, r.cb)

\* What the script does while a completion action or a listener runs.
RECURSIVE Callout(_, _)
Callout(s, re) ==
    IF re = <<>> THEN s ELSE Callout(Submit(s, Head(re)), Tail(re))

\* A request made by the script while the completion action of the open
\* ("callback") or an "open" listener ("listener") runs.
Submissions ==
    [kind : {"close", "shared"}, cb : BOOLEAN, at : {"callback", "listener"}]

During(re, at) == SelectSeq(re, LAMBDA r : r.at = at)

Reentrant == UNION {[1 .. k -> Submissions] : k \in 0 .. MaxReentrant}

----------------------------------------------------------------------------
\* Database::New, up to the return of EIO_BeginOpen
Init ==
    /\ open = FALSE
    /\ locked = FALSE
    /\ pending = 0
    /\ queue = <<>>
    /\ handle = FALSE
    /\ refs = 1
    /\ weak = FALSE
    /\ evrefs = 1
    /\ \E cb \in BOOLEAN : eio = {Req("open", OpenId, cb)}
    /\ jsref = TRUE
    /\ destroyed = FALSE
    /\ nextId = 1
    /\ dispatched = <<>>
    /\ delivered = [i \in Ids |-> "none"]
    /\ asserts = {}
    /\ closeLog = <<>>
    /\ events = [n \in {"open", "close", "error"} |-> 0]
    /\ openResult = "pending"
    /\ closeDone = FALSE
    /\ kinds = [i \in Ids |-> IF i = OpenId THEN "open" ELSE "none"]
    /\ openedAt = 0
    /\ trace = <<"Ref", "ev_ref", "eio_open">>
    /\ last = [op |-> "New", id |-> OpenId, cb |-> FALSE]

\* assert() aborts the process; delete db ends the object.
Running == ~destroyed /\ asserts = {}

\* Database.prototype.close
CloseCall ==
    /\ Running /\ jsref /\ nextId <= MaxReq
    /\ \E cb \in BOOLEAN :
        /\ Apply(Close(Cur, cb))
        /\ last' = [op |-> "Close", id |-> nextId, cb |-> cb]

\* A shared request reaching Schedule
SharedCall ==
    /\ Running /\ jsref /\ nextId <= MaxReq
    /\ \E cb \in BOOLEAN :
        /\ Apply(Shared(Cur, cb))
        /\ last' = [op |-> "Shared", id |-> nextId, cb |-> cb]

\* Mutant: db->handle is not reset when sqlite3_open_v2 fails.
EIO_Open_KeepHandle ==
    /\ Running
    /\ \E it \in eio, st \in {"ok", "err"} :
        /\ it.kind = "open" /\ it.status = "req"
        /\ eio' = (eio \ {it}) \cup {[it EXCEPT !.status = st]}
        /\ handle' = TRUE
        /\ last' = [op |-> "EIO_Open", id |-> it.id, cb |-> it.cb]
    /\ UNCHANGED <<open, locked, pending, queue, refs, weak, evrefs, jsref,
                   destroyed, nextId, dispatched, delivered, asserts,
                   closeLog, events, openResult, closeDone, kinds, openedAt>>
    /\ trace' = <<>>

\* Database::EIO_Open (worker thread)
EIO_Open ==
    /\ Running
    /\ \E it \in eio, st \in {"ok", "err"} :
        /\ it.kind = "open" /\ it.status = "req"
        /\ eio' = (eio \ {it}) \cup {[it EXCEPT !.status = st]}
        /\ handle' = (st = "ok")
        /\ last' = [op |-> "EIO_Open", id |-> it.id, cb |-> it.cb]
    /\ UNCHANGED <<open, locked, pending, queue, refs, weak, evrefs, jsref,
                   destroyed, nextId, dispatched, delivered, asserts,
                   closeLog, events, openResult, closeDone, kinds, openedAt>>
    /\ trace' = <<>>

\* Mutant: the queue is drained before the "open" notification is emitted.
AfterOpen_DrainFirst(s, it, re) ==
    LET s1 == Unref(s)
        s2 == EvUnref(s1)
        s3 == [s2 EXCEPT !.open = (it.status = "ok"),
                         !.openResult = it.status, !.openedAt = s.nextId]
        s4 == IF it.cb
              THEN Deliver(s3, it.id,
                           IF it.status = "ok" THEN "cb_null" ELSE "cb_engine")
              ELSE IF ~s3.open THEN Deliver(s3, it.id, "emit_engine") ELSE s3
        s5 == IF s4.open
              THEN Callout(Emit(Process(Callout(s4, During(re, "callback"))),
                                "open"),
                           During(re, "listener"))
              ELSE s4
    IN  [s5 EXCEPT !.eio = @ \ {it}]

\* Database::EIO_AfterOpen
AfterOpen(s, it, re) ==
    LET s1 == Unref(s)
        s2 == EvUnref(s1)
        s3 == [s2 EXCEPT !.open = (it.status = "ok"),
                         !.openResult = it.status, !.openedAt = s.nextId]
        s4 == IF it.cb
              THEN Deliver(s3, it.id,
                           IF it.status = "ok" THEN "cb_null" ELSE "cb_engine")
              ELSE IF ~s3.open THEN Deliver(s3, it.id, "emit_engine") ELSE s3
        s5 == IF s4.open
              THEN Process(Callout(Emit(Callout(s4, During(re, "callback")),
                                        "open"),
                                   During(re, "listener")))
              ELSE s4
    IN  [s5 EXCEPT !.eio = @ \ {it}]

EIO_AfterOpen ==
    /\ Running
    /\ \E it \in eio, re \in Reentrant :
        /\ it.kind = "open" /\ it.status # "req"
        /\ re # <<>> => (it.status = "ok" /\ jsref)
        /\ During(re, "callback") # <<>> => it.cb
        /\ nextId + Len(re) <= MaxReq + 1
        /\ Apply(AfterOpen(Cur, it, re))
        /\ last' = [op |-> "EIO_AfterOpen", id |-> it.id, cb |-> it.cb]

\* Database::EIO_Close (worker thread)
EIO_Close ==
    /\ Running
    /\ \E it \in eio, st \in {"ok", "err"} :
        /\ it.kind = "close" /\ it.status = "req"
        /\ eio' = (eio \ {it}) \cup {[it EXCEPT !.status = st]}
        /\ closeLog' = Append(closeLog, [by |-> "close", present |-> handle,
                                         ok |-> (st = "ok")])
        /\ handle' = IF st = "ok" THEN FALSE ELSE handle
        /\ last' = [op |-> "EIO_Close", id |-> it.id, cb |-> it.cb]
    /\ UNCHANGED <<open, locked, pending, queue, refs, weak, evrefs, jsref,
                   destroyed, nextId, dispatched, delivered, asserts,
                   events, openResult, closeDone, kinds, openedAt>>
    /\ trace' = <<>>

\* Mutant: the reference and the loop mark are released after the callbacks.
AfterClose_LateUnref(s, it) ==
    LET s3 == IF it.status = "ok"
              THEN [s EXCEPT !.open = FALSE, !.closeDone = TRUE]
              ELSE s
        s4 == IF it.cb
              THEN Deliver(s3, it.id,
                           IF it.status = "ok" THEN "cb_null" ELSE "cb_engine")
              ELSE IF s3.open THEN Deliver(s3, it.id, "emit_engine") ELSE s3
        s5 == IF ~s4.open THEN Process(Emit(s4, "close")) ELSE s4
    IN  [Unref(EvUnref(s5)) EXCEPT !.eio = @ \ {it}]

\* Mutant: a successful close releases the lock it took.
AfterClose_Unlock(s, it) ==
    LET s1 == EvUnref(s)
        s2 == Unref(s1)
        s3 == IF it.status = "ok"
              THEN [s2 EXCEPT !.open = FALSE, !.closeDone = TRUE,
                              !.locked = FALSE]
              ELSE s2
        s4 == IF it.cb
              THEN Deliver(s3, it.id,
                           IF it.status = "ok" THEN "cb_null" ELSE "cb_engine")
              ELSE IF s3.open THEN Deliver(s3, it.id, "emit_engine") ELSE s3
        s5 == IF ~s4.open THEN Process(Emit(s4, "close")) ELSE s4
    IN  [s5 EXCEPT !.eio = @ \ {it}]

\* Database::EIO_AfterClose
AfterClose(s, it) ==
    LET s1 == EvUnref(s)
        s2 == Unref(s1)
        s3 == IF it.status = "ok"
              THEN [s2 EXCEPT !.open = FALSE, !.closeDone = TRUE]
              ELSE s2
        s4 == IF it.cb
              THEN Deliver(s3, it.id,
                           IF it.status = "ok" THEN "cb_null" ELSE "cb_engine")
              ELSE IF s3.open THEN Deliver(s3, it.id, "emit_engine") ELSE s3
        s5 == IF ~s4.open THEN Process(Emit(s4, "close")) ELSE s4
    IN  [s5 EXCEPT !.eio = @ \ {it}]

EIO_AfterClose ==
    /\ Running
    /\ \E it \in eio :
        /\ it.kind = "close" /\ it.status # "req"
        /\ Apply(AfterClose(Cur, it))
        /\ last' = [op |-> "EIO_AfterClose", id |-> it.id, cb |-> it.cb]

\* Completion of a shared request (sections 2 and 4.3 of the specification):
\* the reference and the loop mark are released, the request stops being
\* pending, its completion action runs and the queue is drained.
AfterShared(s, it) ==
    LET s1 == Unref(s)
        s2 == [EvUnref(s1) EXCEPT !.pending = @ - 1]
        s3 == IF it.cb THEN Deliver(s2, it.id, "cb_null") ELSE s2
        s4 == Process(s3)
    IN  [s4 EXCEPT !.eio = @ \ {it}]

EIO_AfterShared ==
    /\ Running
    /\ \E it \in eio :
        /\ it.kind = "shared"
        /\ Apply(AfterShared(Cur, it))
        /\ last' = [op |-> "EIO_AfterShared", id |-> it.id, cb |-> it.cb]

\* The script drops its last reference to the object.
DropReference ==
    /\ Running /\ jsref
    /\ jsref' = FALSE
    /\ last' = [op |-> "DropReference", id |-> OpenId, cb |-> FALSE]
    /\ UNCHANGED <<open, locked, pending, queue, handle, refs, weak, evrefs,
                   eio, destroyed, nextId, dispatched, delivered, asserts,
                   closeLog, events, openResult, closeDone, kinds, openedAt>>
    /\ trace' = <<>>

\* Mutant: the finalizer closes without looking at db->handle.
DestructBody_NoHandleCheck(s) ==
    EvRef(Log([s EXCEPT !.eio = @ \cup {Req("destruct", OpenId, FALSE)}],
              "eio_destruct"))

\* Database::Destruct, the weak callback
DestructBody(s) ==
    IF s.handle
    THEN EvRef(Log([s EXCEPT !.eio = @ \cup {Req("destruct", OpenId, FALSE)}],
                   "eio_destruct"))
    ELSE Log([s EXCEPT !.destroyed = TRUE], "delete")

Destruct ==
    /\ Running /\ weak /\ ~jsref
    /\ \A it \in eio : it.kind # "destruct"
    /\ Apply(DestructBody(Cur))
    /\ last' = [op |-> "Destruct", id |-> OpenId, cb |-> FALSE]

\* Database::EIO_Destruct (worker thread); the engine's answer is ignored
EIO_Destruct ==
    /\ Running
    /\ \E it \in eio, st \in {"ok", "err"} :
        /\ it.kind = "destruct" /\ it.status = "req"
        /\ eio' = (eio \ {it}) \cup {[it EXCEPT !.status = st]}
        /\ closeLog' = Append(closeLog, [by |-> "destruct", present |-> handle,
                                         ok |-> (st = "ok")])
        /\ handle' = FALSE
        /\ last' = [op |-> "EIO_Destruct", id |-> it.id, cb |-> it.cb]
    /\ UNCHANGED <<open, locked, pending, queue, refs, weak, evrefs, jsref,
                   destroyed, nextId, dispatched, delivered, asserts,
                   events, openResult, closeDone, kinds, openedAt>>
    /\ trace' = <<>>

\* Database::EIO_AfterDestruct
AfterDestruct(s, it) ==
    Log([EvUnref(s) EXCEPT !.destroyed = TRUE, !.eio = @ \ {it}], "delete")

EIO_AfterDestruct ==
    /\ Running
    /\ \E it \in eio :
        /\ it.kind = "destruct" /\ it.status # "req"
        /\ Apply(AfterDestruct(Cur, it))
        /\ last' = [op |-> "EIO_AfterDestruct", id |-> it.id, cb |-> it.cb]

Next ==
    \/ CloseCall
    \/ SharedCall
    \/ EIO_Open
    \/ EIO_AfterOpen
    \/ EIO_Close
    \/ EIO_AfterClose
    \/ EIO_AfterShared
    \/ DropReference
    \/ Destruct
    \/ EIO_Destruct
    \/ EIO_AfterDestruct

Spec == Init /\ [][Next]_vars

\* eio runs every request it was given on a worker thread and then calls its
\* completion handler on the event loop.
FairSpec ==
    /\ Spec
    /\ WF_vars(EIO_Open) /\ WF_vars(EIO_AfterOpen)
    /\ WF_vars(EIO_Close) /\ WF_vars(EIO_AfterClose)
    /\ WF_vars(EIO_AfterShared)
    /\ WF_vars(EIO_Destruct) /\ WF_vars(EIO_AfterDestruct)

----------------------------------------------------------------------------
\* Helpers for the properties

Range(f) == {f[i] : i \in DOMAIN f}

QueuedIds == {queue[i].id : i \in DOMAIN queue}

Pos(id) == CHOOSE i \in DOMAIN dispatched : dispatched[i] = id

Misuse == {"cb_misuse", "emit_misuse"}

SubmitStep == nextId' = nextId + 1 /\ last'.op \in {"Close", "Shared"}

\* Shared requests submitted before EIO_AfterOpen began
PreOpenShared == {i \in 1 .. (openedAt - 1) : kinds[i] = "shared"}

----------------------------------------------------------------------------
\* C1: a shared request passed to Schedule while an exclusive record waits
\* at the front of the queue (open, not locked, pending > 0) is appended to
\* the queue behind it and is not executed immediately.
C1_SharedQueuedBehindWaitingClose ==
    [][(/\ SubmitStep /\ last'.op = "Shared"
        /\ open /\ ~locked /\ pending > 0
        /\ queue # <<>> /\ Head(queue).exclusive)
       => (/\ queue' = Append(queue, Call("shared", nextId, last'.cb))
           /\ dispatched' = dispatched)]_vars

\* C2: the three assertions of EIO_BeginClose never fail, and while a close
\* is in flight no shared operation is pending or in flight.
C2_BeginCloseAssertionsHold ==
    /\ asserts \cap {"BeginClose.open", "BeginClose.locked",
                     "BeginClose.pending"} = {}
    /\ \A it \in eio : it.kind = "close" =>
          /\ pending = 0
          /\ \A ot \in eio : ot.kind # "shared"

\* A close that had to wait for a shared operation and was then begun by the
\* drain that follows the shared operation's completion.
C2_Witness ==
    /\ last.op = "EIO_AfterShared"
    /\ \E it \in eio : it.kind = "close" /\ it.status = "req"
    /\ asserts = {}

C4_RejectedWhenClosed ==
    /\ [](\A i \in Ids : delivered[i] \in Misuse =>
             /\ i \notin QueuedIds
             /\ i \notin Range(dispatched)
             /\ \A it \in eio : it.id # i)
    /\ [][(SubmitStep /\ ~open /\ locked)
          => (/\ delivered'[nextId] =
                    (IF last'.cb THEN "cb_misuse" ELSE "emit_misuse")
              /\ queue' = queue
              /\ dispatched' = dispatched
              /\ eio' = eio
              /\ closeLog' = closeLog)]_vars

\* A request was just rejected on a connection that a close has closed.
C4_Witness ==
    /\ last.op \in {"Close", "Shared"}
    /\ closeDone /\ ~open /\ locked
    /\ delivered[last.id] \in Misuse

\* C5: the drain that runs when a close has succeeded fails every record
\* still in the queue and leaves the queue empty.
C5_QueueFlushedWhenClosed ==
    [][(open /\ ~open')
       => (/\ queue' = <<>>
           /\ \A i \in QueuedIds : delivered'[i] \in Misuse)]_vars

\* C6: when a close completes with an engine error, open, locked and pending
\* are what they were before the close began (open, not locked, pending = 0).
C6_FailedCloseRestoresState ==
    [][(\E it \in eio : it.kind = "close" /\ it.status = "err" /\ it \notin eio')
       => (open' /\ ~locked' /\ pending' = 0)]_vars

\* C7: after a failed open the open's completion action has the engine
\* error, no "open" notification has fired, and every request submitted
\* afterwards gets the misuse error and is neither queued nor dispatched.
C7_FailedOpenRejectsRequests ==
    /\ [](openResult = "err" =>
             /\ events["open"] = 0
             /\ delivered[OpenId] \in {"cb_engine", "emit_engine"})
    /\ [][(SubmitStep /\ openResult = "err")
          => (/\ delivered'[nextId] \in Misuse
              /\ queue' = queue
              /\ dispatched' = dispatched)]_vars

CloseOks == {i \in DOMAIN closeLog : closeLog[i].ok}

C9_RefsBalanced ==
    /\ refs >= 0
    /\ (eio = {} /\ queue = <<>>) => refs = 0

\* C10: once a close has completed successfully, open stays false and locked
\* stays true, and the scheduler runs no work and hands nothing to the worker.
C10_ClosedIsTerminal ==
    /\ [](closeDone => (~open /\ locked))
    /\ [][(~open /\ locked)
          => (/\ ~open' /\ locked'
              /\ dispatched' = dispatched
              /\ \A it \in eio' : it \in eio \/ it.kind = "destruct")]_vars

\* A request submitted to, and an open-queued record left on, a closed
\* connection.
C10_Witness ==
    /\ closeDone /\ ~open /\ locked
    /\ last.op \in {"Close", "Shared"}
    /\ nextId > 2

\* C11: the object is deleted only with a zero ref count, a weak handle and
\* no script reference, and then nothing is in flight whose completion would
\* touch or delete it again, and no close() that took a reference is queued.
C11_DestroyedOnlyUnreferenced ==
    destroyed =>
        /\ refs = 0 /\ weak /\ ~jsref
        /\ eio = {}
        /\ \A k \in DOMAIN queue : ~queue[k].exclusive

\* The object was deleted after a close() had been made on it.
C11_Witness ==
    /\ destroyed
    /\ \E i \in Ids : kinds[i] = "close"

\* C12: every error of a request goes to that request's completion action
\* when it has one and is emitted as an "error" notification only when it
\* has none: engine errors at completion, the rejection at submission, and
\* the rejection of the records left in the queue when a close has succeeded
\* (one "error" notification for each such record without completion action,
\* the completion action for each of the others).
C12_ErrorsReachTheirRequest ==
    /\ [](closeDone =>
            /\ \A k \in DOMAIN queue :
                  queue[k].cb => delivered[queue[k].id] = "cb_misuse"
            /\ events["error"] =
                  Cardinality({k \in DOMAIN queue : ~queue[k].cb}))
    /\ [][/\ \A it \in eio :
                (it.status = "err" /\ it \notin eio') =>
                   delivered'[it.id] =
                      (IF it.cb THEN "cb_engine" ELSE "emit_engine")
          /\ (SubmitStep /\ ~open /\ locked) =>
                delivered'[nextId] =
                   (IF last'.cb THEN "cb_misuse" ELSE "emit_misuse")]_vars

\* sqlite3_open_v2 has succeeded (its completion handler may not have run)
EngineOpened ==
    \/ openResult = "ok"
    \/ \E it \in eio : it.kind = "open" /\ it.status = "ok"

\* No explicit close has succeeded and the finalizer's close has not run
NoEngineClose ==
    \A i \in DOMAIN closeLog : closeLog[i].by = "close" /\ ~closeLog[i].ok

\* C13 as stated: the handle is present iff an open has succeeded and no
\* close has completed, and it is present whenever open = true.
C13_HandleIffOpen ==
    /\ handle <=> (EngineOpened /\ NoEngineClose)
    /\ open => handle

\* C13 amended: the handle is present iff sqlite3_open_v2 has succeeded, no
\* explicit sqlite3_close has succeeded and the finalizer's close has not
\* run; it is absent after a failed open and after a successful close; and
\* open = true with the handle absent happens only after the worker's
\* successful close or the finalizer's close, until the completion handler
\* that follows.
C13_HandleIffEngineOpen ==
    /\ handle <=> (EngineOpened /\ NoEngineClose)
    /\ openResult = "err" => ~handle
    /\ closeDone => ~handle
    /\ (open /\ ~handle) =>
          \/ destroyed
          \/ \E it \in eio :
                \/ it.kind = "close" /\ it.status = "ok"
                \/ it.kind = "destruct" /\ it.status # "req"

\* The worker has closed the handle, EIO_AfterClose has not run yet.
C13_Witness ==
    /\ open /\ ~handle
    /\ \E it \in eio : it.kind = "close" /\ it.status = "ok"

ClosesInFlight == {it \in eio : it.kind = "close"}

\* C14: while locked no record is run and pending does not grow; a request
\* submitted while locked and open is appended to the queue; at most one
\* close is in flight, the connection is locked while it is, and no shared
\* operation is in flight with it.
C14_NothingRunsWhileLocked ==
    /\ [](/\ Cardinality(ClosesInFlight) <= 1
          /\ ClosesInFlight # {} =>
                (locked /\ \A it \in eio : it.kind # "shared"))
    /\ [][locked =>
            /\ dispatched' = dispatched
            /\ pending' <= pending
            /\ (SubmitStep /\ open) =>
                  queue' = Append(queue,
                                  Call(kinds'[nextId], nextId, last'.cb))]_vars

\* A request was queued behind a close in flight.
C14_Witness ==
    /\ last.op \in {"Close", "Shared"}
    /\ locked /\ open /\ ClosesInFlight # {}
    /\ last.id \in QueuedIds

HandleWriters == {it \in eio : it.kind \in {"open", "close", "destruct"}}

\* C17: the open work, an explicit close work and the finalizer's close
\* never overlap: at most one of them is in flight.
C17_OneHandleWriter == Cardinality(HandleWriters) <= 1

\* The finalizer's close is in flight after an explicit close has failed.
C17_Witness ==
    /\ \E it \in eio : it.kind = "destruct" /\ it.status = "req"
    /\ Len(closeLog) = 1

\* C19: a close() rejected on a closed connection leaves the ref count and
\* the loop's outstanding-work count unchanged, and when no work is in
\* flight the outstanding-work count is back to zero.
C19_CloseReleasesWhatItTook ==
    /\ [](eio = {} => evrefs = 0)
    /\ [][(SubmitStep /\ last'.op = "Close" /\ ~open /\ locked)
          => (refs' = refs /\ evrefs' = evrefs)]_vars

Notify == {"callback", "open", "close", "error"}

\* The completion handler of an open or a close released the reference and
\* the loop mark before it ran a completion action or emitted anything.
ReleasedFirst ==
    last.op \in {"EIO_AfterOpen", "EIO_AfterClose"} =>
        /\ Len(trace) >= 2
        /\ {trace[1], trace[2]} = {"Unref", "ev_unref"}

C16_OpenNotifiedBeforeDrain ==
    /\ events["open"] = (IF openResult = "ok" THEN 1 ELSE 0)
    /\ (last.op = "EIO_AfterOpen" /\ openResult = "ok") =>
          /\ Cardinality({k \in DOMAIN trace : trace[k] = "open"}) = 1
          /\ \A k, n \in DOMAIN trace :
                (trace[k] = "open" /\ trace[n] = "drain") => k < n

\* The open has succeeded and its drain has run a queued record.
C16_Witness ==
    /\ last.op = "EIO_AfterOpen" /\ openResult = "ok"
    /\ \E k \in DOMAIN trace : trace[k] = "drain"

\* C18: a close() waiting in the queue of an open connection is eventually
\* begun (unless an earlier close has closed the connection meanwhile), given
\* that every dispatched operation completes and its completion handler runs.
C18_CloseEventuallyDispatched ==
    \A c \in 1 .. MaxReq :
        (c \in QueuedIds /\ kinds[c] = "close" /\ open)
            ~> (c \in Range(dispatched) \/ closeDone)

====
